---------------------------- MODULE Spec2Model ----------------------------
(***************************************************************************)
(* mdremind (src/main.go): a reminder set rebuilt from a tree of markdown  *)
(* files, kept up to date by an fsnotify event loop with per-path debounce *)
(* timers, and read by a minute scheduler that calls the notifier.         *)
(*                                                                         *)
(* Goroutines of the program:                                              *)
(*   main        startup load, recursive watch, then the event loop        *)
(*   remindLoop  catch-up pass, then one pass per ticker tick              *)
(*   callbacks   one goroutine per expiry of a debounce timer (AfterFunc)  *)
(* The environment: the file system (whose changes queue watcher events),  *)
(* the passage of time (debounce timers, wall clock, ticker).              *)
(*                                                                         *)
(* A file name is the tuple of its dot-separated segments ("a.md" is       *)
(* <<"a","md">>, ".git" is <<"","git">>), a path the tuple of its names    *)
(* from the notes root down.                                               *)
(***************************************************************************)
EXTENDS Naturals, Integers, Sequences, FiniteSets, Bags, TLC

VARIABLES
    ignoredDirs,   \* config.IgnoredDirs: set of directory basenames
    dirs,          \* file system: the directories that exist (paths)
    files,         \* file system: path of each existing file |-> its lines
    unreadable,    \* file system: the files os.ReadFile fails on
    alive,         \* FALSE once log.Fatalf has ended the process
    reminders,     \* the global: a slice header [arr, len]
    watched,       \* directories the fsnotify watcher watches
    events,        \* watcher.Events: queued, not yet consumed events
    mainpc,        \* where the main goroutine is
    mainEv,        \* the event the main goroutine is processing
    mainRes,       \* result of the rebuild the main goroutine is storing
    eventTimers,   \* path |-> remaining time of its timer (0: not armed)
    callbacks,     \* bag of the running timer callback goroutines
    schedpc,       \* where the remindLoop goroutine is
    snap,          \* the slice header remindLoop ranges over
    idx,           \* index of the next entry of the pass
    now,           \* wall clock, in time units
    nextTick,      \* when the ticker sends next (0: no ticker yet)
    tickPending,   \* a tick waits in the ticker's channel
    delivered,     \* history: title |-> number of notifier invocations
    hist           \* history read by the properties only

fsVars    == <<dirs, files>>
mainVars  == <<mainpc, mainEv, mainRes>>
schedVars == <<schedpc, snap, idx, nextTick, tickPending, delivered>>
vars == <<ignoredDirs, dirs, files, unreadable, alive, reminders, watched, events,
          mainpc, mainEv, mainRes, eventTimers, callbacks,
          schedpc, snap, idx, now, nextTick, tickPending, delivered, hist>>

---------------------------------------------------------------------------
(* Bounds of the model and the units of time.                              *)

MaxQueue     == 2    \* events that may wait in watcher.Events
MaxCallbacks == 2    \* timer callback goroutines in flight
MaxTime      == 6    \* the wall clock stops here
Minute       == 2    \* time units per minute (ticker period, format grain)
QuietWindow  == 2    \* timer units in the 100 ms of timer.Reset

---------------------------------------------------------------------------
(* Names and paths.                                                        *)

Notes == <<"notes">>
Sub   == <<"sub">>
Deep  == <<"deep">>
Git   == <<"", "git">>
Hooks == <<"hooks">>
AMd   == <<"a", "md">>
BMd   == <<"b", "md">>
GMd   == <<"g", "md">>
HMd   == <<"h", "md">>
SMd   == <<"s", "md">>
TTxt  == <<"t", "txt">>
DMd   == <<"d", "md">>

\* Every name of the universe, in the lexical order WalkDir reads a
\* directory in: ".git" "a.md" "b.md" "d.md" "deep" "g.md" "h.md" "hooks"
\* "notes" "s.md" "sub" "t.txt".
NameOrder == <<Git, AMd, BMd, DMd, Deep, GMd, HMd, Hooks, Notes, SMd, Sub, TTxt>>

Root == <<Notes>>                  \* config.NotesDir

Base(path) == path[Len(path)]
Parent(path) == SubSeq(path, 1, Len(path) - 1)

\* Faulty variant of Ext: every name passes for a markdown file's.
ExtMd(path) == "md"

\* filepath.Ext: the suffix from the last dot of the last element, "" when
\* it has none (the dot itself is left out of the value).
Ext(path) == LET n == Base(path) IN IF Len(n) > 1 THEN n[Len(n)] ELSE ""

\* strings.HasSuffix(d.Name(), ".md")
HasSuffixMd(name) == Len(name) >= 2 /\ name[Len(name)] = "md"

\* contains(config.IgnoredDirs, d.Name())
contains(slice, s) == s \in slice

---------------------------------------------------------------------------
(* File contents and the entry extractor.                                  *)

BadDue == -1   \* a due text that time.ParseInLocation rejects

\* A line "- [ ] <title> [due:: <datetime>]": its title and its due time
\* in time units (BadDue when the datetime does not parse).
Line(title, due) == [Title |-> title, Due |-> due]

RECURSIVE parseReminderEntries(_)
parseReminderEntries(lines) ==
    IF lines = <<>> THEN <<>>
    ELSE LET m == Head(lines)
             rest == parseReminderEntries(Tail(lines))
         IN IF m.Due = BadDue THEN rest
            ELSE <<[Title |-> m.Title, Time |-> m.Due]>> \o rest

---------------------------------------------------------------------------
(* filepath.WalkDir over the tree, as findMarkdownFiles uses it.           *)

IsDir(path, ds) == path \in ds
Exists(path, ds, fs) == path \in ds \/ path \in DOMAIN fs

\* Faulty variant of skipDir: no directory is ever pruned.
skipNoDir(ign, name) == FALSE

\* The callback's answer for a directory: filepath.SkipDir when its
\* basename is in config.IgnoredDirs.
skipDir(ign, name) == contains(ign, name)

RECURSIVE findMdWalk(_, _, _, _)
RECURSIVE findMdChildren(_, _, _, _, _)
\* The walk of one path: the callback of findMarkdownFiles, then, for a
\* directory it did not skip, its children in lexical order.
findMdWalk(path, ds, fs, ign) ==
    IF IsDir(path, ds)
    THEN IF skipDir(ign, Base(path))
         THEN <<>>                                         \* SkipDir
         ELSE findMdChildren(path, NameOrder, ds, fs, ign)
    ELSE IF HasSuffixMd(Base(path)) THEN <<path>> ELSE <<>>
findMdChildren(path, names, ds, fs, ign) ==
    IF names = <<>> THEN <<>>
    ELSE LET c == Append(path, Head(names))
         IN (IF Exists(c, ds, fs) THEN findMdWalk(c, ds, fs, ign) ELSE <<>>)
            \o findMdChildren(path, Tail(names), ds, fs, ign)

findMarkdownFiles(dirPath, ds, fs, ign) == findMdWalk(dirPath, ds, fs, ign)

\* Faulty variant of loadFiles: the loop ends at the first file that
\* cannot be read.
RECURSIVE loadFilesBreak(_, _, _)
loadFilesBreak(found, fs, unread) ==
    IF found = <<>> THEN <<>>
    ELSE IF Head(found) \in unread THEN <<>>
    ELSE parseReminderEntries(fs[Head(found)]) \o loadFilesBreak(Tail(found), fs, unread)

\* loadReminders once the scan has succeeded: the entries of every file
\* found that can be read, in scan order.
RECURSIVE loadFiles(_, _, _)
loadFiles(found, fs, unread) ==
    IF found = <<>> THEN <<>>
    ELSE LET f == Head(found)
             rest == loadFiles(Tail(found), fs, unread)
         IN IF f \in unread THEN rest
            ELSE parseReminderEntries(fs[f]) \o rest

loadReminders(notesDir, ds, fs, ign, unread) ==
    loadFiles(findMarkdownFiles(notesDir, ds, fs, ign), fs, unread)

---------------------------------------------------------------------------
(* The slice header of the global and of the scheduler's range.            *)

Header(arr) == [arr |-> arr, len |-> Len(arr)]

\* What reading entry i of a header yields: the element, or whatever lies
\* behind the array when the length belongs to another array.
Garbage == [Title |-> "garbage", Time |-> BadDue]
EntryAt(h, i) == IF i <= Len(h.arr) THEN h.arr[i] ELSE Garbage
Entries(h) == [i \in 1..h.len |-> EntryAt(h, i)]
Torn(h) == h.len # Len(h.arr)

---------------------------------------------------------------------------
(* Ignored subtrees.                                                       *)

IsPrefix(d, path) == Len(d) <= Len(path) /\ SubSeq(path, 1, Len(d)) = d

\* Some directory above the path has an ignored basename.
UnderIgnored(path, ign) == \E i \in 1..(Len(path) - 1) : path[i] \in ign

\* The directories at and beneath d that a watch honouring the ignore
\* set reaches: none of their names from d down is ignored.
Beneath(d, ds, ign) ==
    {e \in ds : IsPrefix(d, e) /\ \A i \in Len(d)..Len(e) : e[i] \notin ign}

---------------------------------------------------------------------------
(* Values of the idle goroutines and of the history.                       *)

NoPath  == <<>>
NoEvent == [Name |-> NoPath, Op |-> {}]

\* fsEvent.Has(op)
Has(ev, op) == op \in ev.Op

\* The history of one path's debounce timer: time since the last
\* Create/Write event of the path was handled (capped at QuietWindow),
\* callbacks started since the current burst began, whether the burst
\* has more than one event, and the value of since at the last start.
NewBurst == [since |-> 0, fired |-> 0, multi |-> FALSE, gap |-> 0]

InitHist(tracks) ==
            [tracks     |-> tracks,  \* the fields the specification keeps
             fatal      |-> "none",  \* which rebuild's scan failure ended the process
             lastDone   |-> <<>>,    \* result of the rebuild that finished storing last
             lastScan   |-> [res |-> <<>>, on |-> {}, unread |-> {}, before |-> <<>>],
                                     \* the last scan: its result, the files that
                                     \* existed, those that could not be read, and
                                     \* the set that was published then
             rmPending  |-> FALSE,   \* a Remove of a .md path is taken, its rebuild not stored
             rmSeen     |-> {},      \* files a Remove rebuild in progress has scanned as gone
             rmDone     |-> {},      \* files still gone whose Remove rebuild has finished
             unseen     |-> FALSE,   \* a change of the tree has queued no event
             readClean  |-> {},      \* rmDone, as it held throughout the scheduler's last read
             burst      |-> <<>>,    \* path |-> history of its timer
             reported   |-> {},      \* Beneath(d), taken when the Create event of d was handled
             startDirs  |-> {},      \* Beneath(Root), taken at the startup walk
             pass       |-> <<>>,    \* the running pass: per entry, when checked and whether notified
             passes     |-> 0,       \* passes of remindLoop that have ended (2: two or more)
             tickAt     |-> 0,       \* when remindLoop received the tick of the running pass
             skipped    |-> {},      \* handled events that were dropped: "dir", "suffix",
                                     \* "rename" (neither Create, Write nor Remove)
             cw         |-> {},      \* markdown files whose Create/Write event was received
             made       |-> <<>>,    \* path |-> timers created for it (2: two or more)
             lastNotify |-> "none"]  \* the last notifier invocation: "ok", "failed", or
                                     \* "recovered" (it succeeded, an earlier one had failed)

\* The history of a scan that returns res.
Scanned(res) == [res |-> res, on |-> DOMAIN files, unread |-> unreadable,
                 before |-> reminders.arr]

\* The history after a step: the fields the specification keeps, as the
\* step leaves them in h.
Record(h) == [f \in DOMAIN hist |-> IF f \in hist.tracks THEN h[f] ELSE hist[f]]

---------------------------------------------------------------------------
(* The environment: the file system.  A change in a watched directory     *)
(* queues an event (inotify reports the children of a watched directory). *)

EmitOK(path) == Parent(path) \in watched => Len(events) < MaxQueue
Emit(path, op) ==
    IF Parent(path) \in watched
    THEN Append(events, [Name |-> path, Op |-> {op}])
    ELSE events

Without(fs, path) == [q \in DOMAIN fs \ {path} |-> fs[q]]
With(fs, path, lines) ==
    [q \in DOMAIN fs \cup {path} |-> IF q = path THEN lines ELSE fs[q]]

\* A file is created with, or rewritten to, the given lines.
FsWrite(path, lines) ==
    /\ alive
    /\ Parent(path) \in dirs
    /\ path \notin dirs
    /\ EmitOK(path)
    /\ files' = With(files, path, lines)
    /\ events' = Emit(path, IF path \in DOMAIN files THEN "Write" ELSE "Create")
    /\ hist' = Record([hist EXCEPT !.rmSeen = @ \ {path}, !.rmDone = @ \ {path},
                                   !.readClean = @ \ {path},
                                   !.unseen = @ \/ Parent(path) \notin watched])
    /\ UNCHANGED <<ignoredDirs, unreadable, dirs, alive, reminders, watched, mainVars,
                   eventTimers, callbacks, schedVars, now>>

\* A file is deleted.
FsRemove(path) ==
    /\ alive
    /\ path \in DOMAIN files
    /\ EmitOK(path)
    /\ files' = Without(files, path)
    /\ events' = Emit(path, "Remove")
    /\ hist' = Record([hist EXCEPT !.unseen = @ \/ Parent(path) \notin watched])
    /\ UNCHANGED <<ignoredDirs, unreadable, dirs, alive, reminders, watched, mainVars,
                   eventTimers, callbacks, schedVars, now>>

\* A file's permissions change: it becomes unreadable.
FsChmod(path) ==
    /\ alive
    /\ path \in DOMAIN files /\ path \notin unreadable
    /\ EmitOK(path)
    /\ unreadable' = unreadable \cup {path}
    /\ events' = Emit(path, "Chmod")
    /\ hist' = Record([hist EXCEPT !.unseen = @ \/ Parent(path) \notin watched])
    /\ UNCHANGED <<ignoredDirs, dirs, files, alive, reminders, watched, mainVars,
                   eventTimers, callbacks, schedVars, now>>

\* A file is moved out of the tree.
FsRenameOut(path) ==
    /\ alive
    /\ path \in DOMAIN files
    /\ EmitOK(path)
    /\ files' = Without(files, path)
    /\ events' = Emit(path, "Rename")
    /\ hist' = Record([hist EXCEPT !.unseen = @ \/ Parent(path) \notin watched])
    /\ UNCHANGED <<ignoredDirs, unreadable, dirs, alive, reminders, watched, mainVars,
                   eventTimers, callbacks, schedVars, now>>

\* A directory that holds one file is moved into the tree.
FsMoveIn(path, file, lines) ==
    /\ alive
    /\ Parent(path) \in dirs
    /\ ~Exists(path, dirs, files)
    /\ EmitOK(path)
    /\ dirs' = dirs \cup {path}
    /\ files' = With(files, file, lines)
    /\ events' = Emit(path, "Create")
    /\ hist' = Record([hist EXCEPT !.unseen = TRUE])
    /\ UNCHANGED <<ignoredDirs, unreadable, alive, reminders, watched, mainVars,
                   eventTimers, callbacks, schedVars, now>>

\* A directory is created.
FsMkdir(path) ==
    /\ alive
    /\ Parent(path) \in dirs
    /\ ~Exists(path, dirs, files)
    /\ EmitOK(path)
    /\ dirs' = dirs \cup {path}
    /\ events' = Emit(path, "Create")
    /\ hist' = Record([hist EXCEPT !.unseen = @ \/ Parent(path) \notin watched])
    /\ UNCHANGED <<ignoredDirs, unreadable, files, alive, reminders, watched, mainVars,
                   eventTimers, callbacks, schedVars, now>>

---------------------------------------------------------------------------
(* watchDirRecursive: WalkDir with a callback that adds a watch on every   *)
(* directory whose basename is not ignored and always returns nil.         *)

RECURSIVE watchWalk(_, _, _, _)
watchWalk(path, ds, fs, ign) ==
    IF IsDir(path, ds)
    THEN (IF ~contains(ign, Base(path)) THEN {path} ELSE {})
         \cup UNION {watchWalk(Append(path, NameOrder[i]), ds, fs, ign) :
                       i \in {j \in 1..Len(NameOrder) :
                                Exists(Append(path, NameOrder[j]), ds, fs)}}
    ELSE {}

watchDirRecursive(dirPath, ds, fs, ign) == watchWalk(dirPath, ds, fs, ign)

---------------------------------------------------------------------------
(* Storing a slice header into the global, and loading it: two words,     *)
(* the array pointer and the length, with no synchronisation.             *)

Words == {"ptr", "len"}
StoreWord(h, res, w) ==
    IF w = "ptr" THEN [h EXCEPT !.arr = res] ELSE [h EXCEPT !.len = Len(res)]
LoadWord(h, from, w) ==
    IF w = "ptr" THEN [h EXCEPT !.arr = from.arr] ELSE [h EXCEPT !.len = from.len]
\* The word a store or load at pc may move, and the pc after it.
WordAt(pc, w) ==
    \/ pc \in {"store", "read"}
    \/ pc \in {"store_ptr", "read_ptr"} /\ w = "ptr"
    \/ pc \in {"store_len", "read_len"} /\ w = "len"
Half(pc) == pc \in {"store", "read"}
Rest(pc, w) ==
    IF pc = "store" THEN (IF w = "ptr" THEN "store_len" ELSE "store_ptr")
    ELSE (IF w = "ptr" THEN "read_len" ELSE "read_ptr")

---------------------------------------------------------------------------
(* The per-path debounce timers (lines 215-229).                           *)

Armed(timers, name) == name \in DOMAIN timers /\ timers[name] > 0

\* Faulty variant of ResetTimer: an armed timer keeps its deadline.
ResetKeepsDeadline(remaining, d) == IF remaining > 0 THEN remaining ELSE d

\* timer.Reset(d): the timer fires d from now, armed before or not.
ResetTimer(remaining, d) == d

\* Faulty variant of armTimer: one deadline for the whole table, every
\* timer is reset with the event's.
armAllTimers(timers, name) ==
    LET t == IF name \in DOMAIN timers THEN timers ELSE (name :> 0) @@ timers
    IN [q \in DOMAIN t |-> IF q = name \/ t[q] > 0 THEN QuietWindow ELSE t[q]]

\* Faulty variant of lookup: the table never answers with a timer.
lookupMisses(timers, name) == FALSE

\* Line 217: timer, ok := eventTimers[fsEvent.Name]
lookup(timers, name) == name \in DOMAIN timers

\* Look the path's timer up, create it stopped when there is none, reset it.
armTimer(timers, name) ==
    LET t == IF lookup(timers, name) THEN timers ELSE (name :> 0) @@ timers
    IN [t EXCEPT ![name] = ResetTimer(t[name], QuietWindow)]

armBurst(bursts, timers, name) ==
    IF Armed(timers, name) /\ name \in DOMAIN bursts
    THEN [bursts EXCEPT ![name] = [@ EXCEPT !.since = 0, !.multi = TRUE]]
    ELSE (name :> NewBurst) @@ bursts

\* Line 215: the event takes the debounce path.
debounces(ev) == Has(ev, "Create") \/ Has(ev, "Write")

\* Faulty variant of rebuildsNow: a Rename event starts a rebuild as well.
rebuildsOnRename(ev) == Has(ev, "Remove") \/ Has(ev, "Rename")

\* Timers created for each path, after one is looked up for name.
countTimer(made, timers, name) ==
    IF lookup(timers, name) THEN made
    ELSE IF name \in DOMAIN made THEN [made EXCEPT ![name] = 2]
    ELSE (name :> 1) @@ made

\* Faulty variant of rebuildsNow: a Remove event starts no rebuild of its own.
rebuildsNever(ev) == FALSE

\* Line 212: the event takes the immediate rebuild.
rebuildsNow(ev) == Has(ev, "Remove")

---------------------------------------------------------------------------
(* The main goroutine.                                                     *)

Fatal(which) ==
    /\ alive' = FALSE
    /\ hist' = Record([hist EXCEPT !.fatal = which])

\* Lines 182-183: the initial load, then go remindLoop().
MainLoad(ok) ==
    /\ alive /\ mainpc = "load"
    /\ IF ok
       THEN LET res == loadReminders(Root, dirs, files, ignoredDirs, unreadable)
            IN /\ reminders' = Header(res)
               /\ schedpc' = "read"
               /\ mainpc' = "watch"
               /\ hist' = Record([hist EXCEPT !.lastDone = res,
                                              !.lastScan = Scanned(res)])
               /\ UNCHANGED alive
       ELSE /\ Fatal("startup")
            /\ UNCHANGED <<reminders, schedpc, mainpc>>
    /\ UNCHANGED <<ignoredDirs, unreadable, fsVars, watched, events, mainEv, mainRes,
                   eventTimers, callbacks, snap, idx, now, nextTick,
                   tickPending, delivered>>

\* Lines 185-193: the watcher and the initial recursive watch.
MainWatch ==
    /\ alive /\ mainpc = "watch"
    /\ watched' = watchDirRecursive(Root, dirs, files, ignoredDirs)
    /\ mainpc' = "idle"
    /\ hist' = Record([hist EXCEPT !.startDirs = Beneath(Root, dirs, ignoredDirs)])
    /\ UNCHANGED <<ignoredDirs, unreadable, fsVars, alive, reminders, events, mainEv,
                   mainRes, eventTimers, callbacks, schedVars, now>>

\* Lines 215-229 for event ev, and back to the select (stored: the
\* handler has just stored the result of the event's Remove rebuild).
Debounce(ev, stored) ==
    LET h == [hist EXCEPT
                !.rmPending = ~stored /\ Has(ev, "Remove"),
                !.rmDone = IF stored THEN @ \cup (hist.rmSeen \cap {ev.Name}) ELSE @,
                !.rmSeen = @ \ {ev.Name},
                !.lastDone = IF stored THEN mainRes ELSE @,
                !.cw = IF Has(ev, "Create") \/ Has(ev, "Write")
                       THEN @ \cup {ev.Name} ELSE @]
    IN /\ IF debounces(ev)
          THEN /\ eventTimers' = armTimer(eventTimers, ev.Name)
               /\ hist' = Record([h EXCEPT
                             !.burst = armBurst(@, eventTimers, ev.Name),
                             !.made = countTimer(@, eventTimers, ev.Name)])
          ELSE /\ UNCHANGED eventTimers
               /\ hist' = Record([h EXCEPT
                             !.skipped = IF stored THEN @ ELSE @ \cup {"rename"}])
       /\ mainpc' = "idle"
       /\ mainEv' = NoEvent
       /\ mainRes' = <<>>

\* Lines 197-214: one event is received and handled up to the store of
\* the Remove rebuild (ok: whether that rebuild's scan succeeds).
HandleEvent(ok) ==
    /\ alive /\ mainpc = "idle" /\ events # <<>>
    /\ LET ev == Head(events) IN
       /\ events' = Tail(events)
       /\ IF Has(ev, "Create") /\ IsDir(ev.Name, dirs)
          THEN /\ watched' = watched \cup {ev.Name}            \* watcher.Add
               /\ hist' = Record([hist EXCEPT
                             !.reported = @ \cup Beneath(ev.Name, dirs, ignoredDirs),
                             !.skipped = @ \cup {"dir"}])
               /\ UNCHANGED <<alive, mainVars, eventTimers>>
          ELSE IF Ext(ev.Name) # "md"
          THEN /\ hist' = Record([hist EXCEPT !.skipped = @ \cup {"suffix"}])
               /\ UNCHANGED <<alive, watched, mainVars, eventTimers>>
          ELSE IF rebuildsNow(ev)
          THEN IF ok
               THEN /\ mainRes' = loadReminders(Root, dirs, files, ignoredDirs, unreadable)
                    /\ mainEv' = ev
                    /\ mainpc' = "store"
                    /\ hist' = Record([hist EXCEPT
                                  !.lastScan = Scanned(mainRes'),
                                  !.rmPending = TRUE,
                                  !.rmSeen = IF ev.Name \in DOMAIN files
                                             THEN @ ELSE @ \cup {ev.Name}])
                    /\ UNCHANGED <<alive, watched, eventTimers>>
               ELSE /\ Fatal("remove")
                    /\ UNCHANGED <<watched, mainVars, eventTimers>>
          ELSE /\ Debounce(ev, FALSE)
               /\ UNCHANGED <<alive, watched>>
    /\ UNCHANGED <<ignoredDirs, unreadable, fsVars, reminders, callbacks, schedVars, now>>

\* Line 213: one word of the assignment to the global; after the second,
\* the rest of the handler.
MainStore(w) ==
    /\ alive /\ mainpc \in {"store", "store_ptr", "store_len"}
    /\ WordAt(mainpc, w)
    /\ reminders' = StoreWord(reminders, mainRes, w)
    /\ IF Half(mainpc)
       THEN /\ mainpc' = Rest(mainpc, w)
            /\ UNCHANGED <<mainEv, mainRes, eventTimers, hist>>
       ELSE Debounce(mainEv, TRUE)
    /\ UNCHANGED <<ignoredDirs, unreadable, fsVars, alive, watched, events, callbacks,
                   schedVars, now>>

---------------------------------------------------------------------------
(* Time for the debounce timers, and the callbacks their expiry starts.   *)

Expiring == {p \in DOMAIN eventTimers : eventTimers[p] = 1}

\* The goroutine time.AfterFunc starts for the timer of path.
NewCallback(path) == [path |-> path, pc |-> "scan", res |-> <<>>]
Running == BagToSet(callbacks)
Replace(c, d) == (callbacks (-) SetToBag({c})) (+) SetToBag({d})

Min(a, b) == IF a < b THEN a ELSE b

\* One unit of time passes for the timers; the timers that reach their
\* deadline start their callback (time.AfterFunc runs it in a goroutine).
Elapse ==
    /\ alive
    /\ \E p \in DOMAIN eventTimers : eventTimers[p] > 0
    /\ BagCardinality(callbacks) + Cardinality(Expiring) <= MaxCallbacks
    /\ eventTimers' = [p \in DOMAIN eventTimers |->
                         IF eventTimers[p] > 0 THEN eventTimers[p] - 1 ELSE 0]
    /\ callbacks' = callbacks (+) SetToBag({NewCallback(p) : p \in Expiring})
    /\ hist' = Record([hist EXCEPT !.burst =
                  [p \in DOMAIN @ |->
                     LET s == Min(@[p].since + 1, QuietWindow)
                     IN IF p \in Expiring
                        THEN [@[p] EXCEPT !.since = s, !.fired = @ + 1, !.gap = s]
                        ELSE [@[p] EXCEPT !.since = s]]])
    /\ UNCHANGED <<ignoredDirs, unreadable, fsVars, alive, reminders, watched, events,
                   mainVars, schedVars, now>>

\* Line 221 in callback c: loadReminders (ok: whether the scan succeeds).
CallbackScan(c, ok) ==
    /\ alive /\ c \in Running /\ c.pc = "scan"
    /\ IF ok
       THEN LET res == loadReminders(Root, dirs, files, ignoredDirs, unreadable)
            IN /\ callbacks' = Replace(c, [c EXCEPT !.res = res, !.pc = "store"])
               /\ hist' = Record([hist EXCEPT !.lastScan = Scanned(res)])
               /\ UNCHANGED alive
       ELSE /\ Fatal("timer")
            /\ UNCHANGED callbacks
    /\ UNCHANGED <<ignoredDirs, unreadable, fsVars, reminders, watched, events, mainVars,
                   eventTimers, schedVars, now>>

\* Line 221 in callback c: one word of the assignment to the global.
CallbackStore(c, w) ==
    /\ alive /\ c \in Running /\ c.pc \in {"store", "store_ptr", "store_len"}
    /\ WordAt(c.pc, w)
    /\ reminders' = StoreWord(reminders, c.res, w)
    /\ IF Half(c.pc)
       THEN /\ callbacks' = Replace(c, [c EXCEPT !.pc = Rest(@, w)])
            /\ UNCHANGED hist
       ELSE /\ callbacks' = callbacks (-) SetToBag({c})
            /\ hist' = Record([hist EXCEPT !.lastDone = c.res])
    /\ UNCHANGED <<ignoredDirs, unreadable, fsVars, alive, watched, events, mainVars,
                   eventTimers, schedVars, now>>

---------------------------------------------------------------------------
(* remindLoop, the wall clock and the ticker.                              *)

\* Time.Format with the configured layout: the minute the time lies in.
Format(t) == t \div Minute

\* notify(title): one invocation of the notifier.
notify(counts, title) ==
    IF title \in DOMAIN counts THEN [counts EXCEPT ![title] = @ + 1]
    ELSE (title :> 1) @@ counts

\* Faulty variant of afterNotify: a failed invocation is tried again.
afterNotifyRetry(i, ok) == IF ok THEN i + 1 ELSE i

\* Lines 117-120 and the loops around the call: notify logs the error of
\* the command and returns nothing, the range goes on to the next entry.
afterNotify(i, ok) == i + 1

\* The history of the notifier's outcomes after one more invocation.
Outcome(last, ok) ==
    IF ~ok THEN "failed"
    ELSE IF last \in {"failed", "recovered"} THEN "recovered" ELSE "ok"

\* Lines 124 and 130: the range expression is evaluated, one word at a time.
SchedRead(w) ==
    /\ alive /\ schedpc \in {"read", "read_ptr", "read_len"}
    /\ WordAt(schedpc, w)
    /\ snap' = LoadWord(snap, reminders, w)
    /\ IF Half(schedpc)
       THEN /\ schedpc' = Rest(schedpc, w)
            /\ UNCHANGED idx
            /\ hist' = Record([hist EXCEPT !.readClean = hist.rmDone])
       ELSE /\ schedpc' = "pass"
            /\ idx' = 1
            /\ UNCHANGED hist
    /\ UNCHANGED <<ignoredDirs, unreadable, fsVars, alive, reminders, watched, events,
                   mainVars, eventTimers, callbacks, now, nextTick,
                   tickPending, delivered>>

\* Faulty variant of Due: the catch-up pass compares minutes as a tick does.
DueByMinute(entry, t, catchup, junk) ==
    IF entry.Time = BadDue THEN junk
    ELSE entry.Time \div Minute = t \div Minute

\* Lines 125 and 131: is the entry due, in the catch-up pass (no ticker
\* yet) and on a tick.  Memory behind the array compares either way.
Due(entry, t, catchup, junk) ==
    IF entry = Garbage THEN junk
    ELSE IF catchup THEN entry.Time <= t
    ELSE Format(entry.Time) = Format(t)

\* One iteration of the range loop (junk: how memory behind the array
\* compares; the notifier's command, when it is run, succeeds or fails).
SchedCheck(junk) ==
    /\ alive /\ schedpc = "pass" /\ idx <= snap.len
    /\ LET entry == EntryAt(snap, idx)
           due == Due(entry, now, nextTick = 0, junk)
       IN IF due
          THEN \E ok \in BOOLEAN :
                  /\ delivered' = notify(delivered, entry.Title)
                  /\ idx' = afterNotify(idx, ok)
                  /\ hist' = Record([hist EXCEPT
                                !.pass = Append(@, [at |-> now, sent |-> TRUE]),
                                !.lastNotify = Outcome(@, ok)])
          ELSE /\ delivered' = delivered
               /\ idx' = idx + 1
               /\ hist' = Record([hist EXCEPT
                             !.pass = Append(@, [at |-> now, sent |-> FALSE])])
    /\ UNCHANGED <<ignoredDirs, unreadable, fsVars, alive, reminders, watched, events,
                   mainVars, eventTimers, callbacks, schedpc, snap, now,
                   nextTick, tickPending>>

\* The range loop ends (its copy of the header is dead from here on):
\* after the catch-up pass line 129 creates the ticker, after a tick's
\* pass the goroutine waits for the next tick.
SchedPassEnd ==
    /\ alive /\ schedpc = "pass" /\ idx > snap.len
    /\ schedpc' = "wait"
    /\ snap' = Header(<<>>)
    /\ idx' = 1
    /\ nextTick' = IF nextTick = 0 THEN now + Minute ELSE nextTick
    /\ hist' = Record([hist EXCEPT !.readClean = {}, !.pass = <<>>,
                                   !.passes = Min(@ + 1, 2)])
    /\ UNCHANGED <<ignoredDirs, unreadable, fsVars, alive, reminders, watched, events,
                   mainVars, eventTimers, callbacks, now, tickPending,
                   delivered>>

\* Line 129: a tick is received.
SchedTick ==
    /\ alive /\ schedpc = "wait" /\ tickPending
    /\ tickPending' = FALSE
    /\ schedpc' = "read"
    /\ hist' = Record([hist EXCEPT !.tickAt = now])
    /\ UNCHANGED <<ignoredDirs, unreadable, fsVars, alive, reminders, watched, events,
                   mainVars, eventTimers, callbacks, snap, idx, now,
                   nextTick, delivered>>

\* The wall clock advances; at the ticker's time a tick is sent, and is
\* dropped when one still waits in the channel.
ClockAdvance ==
    /\ alive /\ now < MaxTime
    /\ now' = now + 1
    /\ IF nextTick # 0 /\ now + 1 = nextTick
       THEN /\ tickPending' = TRUE
            /\ nextTick' = nextTick + Minute
       ELSE UNCHANGED <<tickPending, nextTick>>
    /\ UNCHANGED <<ignoredDirs, unreadable, fsVars, alive, reminders, watched, events,
                   mainVars, eventTimers, callbacks, schedpc, snap, idx,
                   delivered, hist>>

---------------------------------------------------------------------------
(* Initial states.                                                         *)

P(dir, name) == Append(dir, name)
GitDir   == P(Root, Git)
HooksDir == P(GitDir, Hooks)
SubDir   == P(Root, Sub)
DeepDir  == P(SubDir, Deep)

\* The titles a file of the universe may hold are its own: a title names
\* the one file it can come from.
TitleFile == [a |-> P(Root, AMd), a2 |-> P(Root, AMd), b |-> P(Root, BMd),
              g |-> P(GitDir, GMd), h |-> P(HooksDir, HMd),
              s |-> P(SubDir, SMd)]
FromFile(title, path) == \E f \in DOMAIN TitleFile : f = title /\ TitleFile[f] = path

InitWith(ign, ds, fs, t, tracks) ==
    /\ ignoredDirs = ign
    /\ dirs = ds
    /\ files = fs
    /\ unreadable = {}
    /\ alive = TRUE
    /\ reminders = Header(<<>>)
    /\ watched = {}
    /\ events = <<>>
    /\ mainpc = "load"
    /\ mainEv = NoEvent
    /\ mainRes = <<>>
    /\ eventTimers = <<>>
    /\ callbacks = EmptyBag
    /\ schedpc = "none"
    /\ snap = Header(<<>>)
    /\ idx = 1
    /\ now = t
    /\ nextTick = 0
    /\ tickPending = FALSE
    /\ delivered = <<>>
    /\ hist = InitHist(tracks)

---------------------------------------------------------------------------
(* The scheduler over a tree that does not change: one file with two      *)
(* entries, each due in some minute of the run or unparsable.             *)

DueTimes == {m * Minute : m \in 0..(MaxTime \div Minute)}

InitSched ==
    \E d1 \in DueTimes \cup {BadDue}, d2 \in DueTimes :
       InitWith({Git}, {Root},
                P(Root, AMd) :> <<Line("a", d1), Line("a2", d2)>>, 0,
                {"lastDone", "pass", "passes", "tickAt"})

NextSched ==
    \/ \E ok \in BOOLEAN : MainLoad(ok)
    \/ MainWatch
    \/ \E w \in Words : SchedRead(w)
    \/ \E junk \in BOOLEAN : SchedCheck(junk)
    \/ SchedPassEnd
    \/ SchedTick
    \/ ClockAdvance

SpecSched == InitSched /\ [][NextSched]_vars

---------------------------------------------------------------------------
(* The event loop and the debounce timers: two markdown files of the      *)
(* notes root are written and deleted.                                    *)

FileA == P(Root, AMd)
FileB == P(Root, BMd)
Later == MaxTime + Minute     \* a due time the run does not reach
FileH == P(HooksDir, HMd)
FileT == P(Root, TTxt)
DirMd == P(Root, DMd)             \* a directory named like a markdown file
FileD == P(DirMd, AMd)
LinesOf(path) ==
    CASE path = FileA -> <<Line("a", Later)>>
      [] path = FileB -> <<Line("b", Later)>>
      [] path = FileH -> <<Line("h", Later)>>
      [] path = FileT -> <<Line("t", Later)>>
      [] path = FileD -> <<Line("d", Later)>>

InitRecon == InitWith({Git}, {Root}, FileA :> LinesOf(FileA), 0,
                      {"fatal", "unseen", "burst", "rmPending", "rmSeen", "rmDone"})

NextRecon ==
    \/ \E p \in {FileA} : FsWrite(p, LinesOf(p))
    \/ \E p \in {FileA} : FsRemove(p)
    \/ \E ok \in BOOLEAN : MainLoad(ok)
    \/ MainWatch
    \/ \E ok \in BOOLEAN : HandleEvent(ok)
    \/ \E w \in Words : MainStore(w)
    \/ Elapse
    \/ \E c \in Running, ok \in BOOLEAN : CallbackScan(c, ok)
    \/ \E c \in Running, w \in Words : CallbackStore(c, w)

SpecRecon == InitRecon /\ [][NextRecon]_vars

---------------------------------------------------------------------------
(* Two markdown files of the notes root are rewritten, each with its own  *)
(* debounce timer.                                                        *)

InitPaths == InitWith({Git}, {Root},
                      (FileA :> LinesOf(FileA)) @@ (FileB :> LinesOf(FileB)), 0,
                      {"burst", "cw", "made"})

NextPaths ==
    \/ \E p \in {FileA, FileB} : FsWrite(p, LinesOf(p))
    \/ \E ok \in BOOLEAN : MainLoad(ok)
    \/ MainWatch
    \/ \E ok \in BOOLEAN : HandleEvent(ok)
    \/ Elapse
    \/ \E c \in Running, ok \in BOOLEAN : CallbackScan(c, ok)
    \/ \E c \in Running, w \in Words : CallbackStore(c, w)

SpecPaths == InitPaths /\ [][NextPaths]_vars

---------------------------------------------------------------------------
(* Files that cannot be read: of two markdown files of the notes root,    *)
(* one becomes unreadable and is rewritten, the other is deleted.         *)

InitRead == InitWith({Git}, {Root},
                     (FileA :> LinesOf(FileA)) @@ (FileB :> LinesOf(FileB)), 0,
                     {"lastScan"})

NextRead ==
    \/ FsChmod(FileA)
    \/ FsWrite(FileA, LinesOf(FileA))
    \/ FsRemove(FileB)
    \/ \E ok \in BOOLEAN : MainLoad(ok)
    \/ MainWatch
    \/ \E ok \in BOOLEAN : HandleEvent(ok)
    \/ \E w \in Words : MainStore(w)
    \/ Elapse
    \/ \E c \in Running, ok \in BOOLEAN : CallbackScan(c, ok)
    \/ \E c \in Running, w \in Words : CallbackStore(c, w)

SpecRead == InitRead /\ [][NextRead]_vars

---------------------------------------------------------------------------
(* The suffix filter: a markdown file and a text file of the notes root   *)
(* are written.                                                           *)

InitSuffix == InitWith({Git}, {Root}, FileA :> LinesOf(FileA), 0, {"skipped"})

NextSuffix ==
    \/ \E p \in {FileA, FileT} : FsWrite(p, LinesOf(p))
    \/ \E ok \in BOOLEAN : MainLoad(ok)
    \/ MainWatch
    \/ \E ok \in BOOLEAN : HandleEvent(ok)
    \/ Elapse
    \/ \E c \in Running, ok \in BOOLEAN : CallbackScan(c, ok)
    \/ \E c \in Running, w \in Words : CallbackStore(c, w)

SpecSuffix == InitSuffix /\ [][NextSuffix]_vars

---------------------------------------------------------------------------
(* The kinds of events: a markdown file of the notes root is written and  *)
(* moved away, and a directory named d.md that holds a markdown file is   *)
(* moved in.                                                              *)

InitKinds == InitWith({Git}, {Root}, FileA :> LinesOf(FileA), 0, {"skipped"})

NextKinds ==
    \/ FsWrite(FileA, LinesOf(FileA))
    \/ FsRenameOut(FileA)
    \/ FsMoveIn(DirMd, FileD, LinesOf(FileD))
    \/ \E ok \in BOOLEAN : MainLoad(ok)
    \/ MainWatch
    \/ \E ok \in BOOLEAN : HandleEvent(ok)
    \/ Elapse
    \/ \E c \in Running, ok \in BOOLEAN : CallbackScan(c, ok)
    \/ \E c \in Running, w \in Words : CallbackStore(c, w)

SpecKinds == InitKinds /\ [][NextKinds]_vars

---------------------------------------------------------------------------
(* The notifier: the scheduler delivers the entries of a file that is     *)
(* rewritten meanwhile, and the notifier's command may fail.              *)

DueLines == <<Line("a", 0), Line("a2", Minute)>>

InitNotify == InitWith({Git}, {Root}, FileA :> DueLines, 0, {"lastNotify"})

NextNotify ==
    \/ FsWrite(FileA, DueLines)
    \/ \E ok \in BOOLEAN : MainLoad(ok)
    \/ MainWatch
    \/ \E ok \in BOOLEAN : HandleEvent(ok)
    \/ Elapse
    \/ \E c \in Running, ok \in BOOLEAN : CallbackScan(c, ok)
    \/ \E c \in Running, w \in Words : CallbackStore(c, w)
    \/ \E w \in Words : SchedRead(w)
    \/ \E junk \in BOOLEAN : SchedCheck(junk)
    \/ SchedPassEnd
    \/ SchedTick
    \/ ClockAdvance

SpecNotify == InitNotify /\ [][NextNotify]_vars

---------------------------------------------------------------------------
(* The same, with the scheduler reading the global while it is rebuilt.   *)
(* The process starts late enough for the clock to allow the catch-up     *)
(* pass and the first ticks.                                              *)

InitRace == InitWith({Git}, {Root}, FileA :> LinesOf(FileA), MaxTime - Minute,
                     {"lastDone", "rmSeen", "rmDone", "readClean"})

NextRace ==
    \/ \E p \in {FileA} : FsWrite(p, LinesOf(p))
    \/ \E p \in {FileA} : FsRemove(p)
    \/ \E ok \in BOOLEAN : MainLoad(ok)
    \/ MainWatch
    \/ \E ok \in BOOLEAN : HandleEvent(ok)
    \/ \E w \in Words : MainStore(w)
    \/ Elapse
    \/ \E c \in Running, ok \in BOOLEAN : CallbackScan(c, ok)
    \/ \E c \in Running, w \in Words : CallbackStore(c, w)
    \/ \E w \in Words : SchedRead(w)
    \/ \E junk \in BOOLEAN : SchedCheck(junk)
    \/ SchedPassEnd
    \/ SchedTick
    \/ ClockAdvance

SpecRace == InitRace /\ [][NextRace]_vars

---------------------------------------------------------------------------
(* Directories: the tree grows below the notes root, with an ignored      *)
(* directory that holds a directory of its own and a markdown file.       *)

IgnoreSets == {{Git}, {Hooks}, {Git, Sub}}

InitWatch ==
    \E ign \in IgnoreSets :
       \/ InitWith(ign, {Root}, FileA :> LinesOf(FileA), 0,
                   {"reported", "startDirs"})
       \/ InitWith(ign, {Root, GitDir, HooksDir},
                   (FileA :> LinesOf(FileA)) @@ (FileH :> LinesOf(FileH)), 0,
                   {"reported", "startDirs"})

NextWatch ==
    \/ \E d \in {SubDir, DeepDir, GitDir, HooksDir} : FsMkdir(d)
    \/ FsWrite(FileH, LinesOf(FileH))
    \/ \E ok \in BOOLEAN : MainLoad(ok)
    \/ MainWatch
    \/ \E ok \in BOOLEAN : HandleEvent(ok)
    \/ Elapse
    \/ \E c \in Running, ok \in BOOLEAN : CallbackScan(c, ok)
    \/ \E c \in Running, w \in Words : CallbackStore(c, w)

SpecWatch == InitWatch /\ [][NextWatch]_vars

---------------------------------------------------------------------------
(* Properties of the event loop, the timers and the rebuilds.             *)

Storing(pc) == pc \in {"store_ptr", "store_len"}
NoStoreInProgress == ~Storing(mainpc) /\ \A c \in Running : ~Storing(c.pc)
Published == Entries(reminders)
OnDisk == loadReminders(Root, dirs, files, ignoredDirs, {})

\* Nothing is left to do for the reconciler: no event queued or being
\* handled, no timer armed, no callback running.
Quiescent ==
    /\ alive /\ mainpc = "idle" /\ events = <<>>
    /\ callbacks = EmptyBag
    /\ \A p \in DOMAIN eventTimers : eventTimers[p] = 0

\* C2: the scheduler never ranges over a header under construction, and
\* whenever no store is in progress the published set is the whole
\* result of the rebuild that completed last, never a mixture of two.
C2_PublishedIsOneRebuild ==
    /\ schedpc = "pass" => ~Torn(snap)
    /\ NoStoreInProgress => ~Torn(reminders) /\ reminders.arr = hist.lastDone

\* C3: once the events have stopped and every rebuild has completed, the
\* published set is the set extracted from the tree as it is on disk
\* (stated for the runs in which every change of the tree queued its
\* event).
C3_ConvergesToDisk ==
    (Quiescent /\ ~hist.unseen) => reminders = Header(OnDisk)

\* C4: a scan failure ends the process only in the initial load; after a
\* failed scan of a timer's or a Remove's rebuild the process runs on.
C4_ScanFailureFatalOnlyAtStartup ==
    ~alive => hist.fatal = "startup"

\* C5: the Create/Write events of one path that each come within the
\* quiet window of the one before start exactly one rebuild callback, and
\* it starts a full quiet window after the last of them: while the timer
\* is armed none has started, and once it is not, one has, QuietWindow
\* after the last event.
C5_OneRebuildPerBurst ==
    \A p \in DOMAIN eventTimers :
       LET b == hist.burst[p]
       IN /\ eventTimers[p] > 0 => b.fired = 0
          /\ eventTimers[p] = 0 => b.fired = 1 /\ b.gap = QuietWindow

\* A burst of several events has ended in its one callback.
C5_Witness ==
    \E p \in DOMAIN eventTimers :
       /\ hist.burst[p].multi /\ hist.burst[p].fired = 1
       /\ eventTimers[p] = 0

\* C6: the event loop takes no further event before the rebuild of a
\* Remove event of a .md path has run and stored its result.
C6_RemoveRebuildsAtOnce ==
    (alive /\ mainpc = "idle") => ~hist.rmPending

\* The rebuild of a Remove has been stored while the timer of its path
\* is armed, and the loop is back at the select.
C6_Witness ==
    /\ alive /\ mainpc = "idle"
    /\ \E p \in hist.rmDone : Armed(eventTimers, p)

\* C7: once the rebuild of the Remove event of the only file that holds
\* a reminder has completed, no header the scheduler then reads on a
\* tick holds that reminder.
C7_RemovedFileLeavesNextSnapshot ==
    (schedpc = "pass" /\ nextTick # 0) =>
       \A p \in hist.readClean :
          \A i \in 1..snap.len : ~FromFile(EntryAt(snap, i).Title, p)

---------------------------------------------------------------------------
(* Properties of the watches and of the scan.                              *)

\* C8: between events, the directory of every Create event handled so
\* far and every non-ignored directory that was beneath it then are
\* watched, and so is every non-ignored directory the startup walk found.
C8_CreatedDirsWatched ==
    (alive /\ mainpc = "idle") => (hist.reported \cup hist.startDirs) \subseteq watched

\* C9: no watch is on a directory with an ignored basename or beneath
\* one, and no event of a path inside an ignored subtree is queued.
C9_NoWatchInIgnoredSubtree ==
    /\ \A d \in watched : Base(d) \notin ignoredDirs /\ ~UnderIgnored(d, ignoredDirs)
    /\ \A i \in 1..Len(events) : ~UnderIgnored(events[i].Name, ignoredDirs)

\* The entries a rebuild has produced: published, or about to be stored.
Rebuilt ==
    {Published[i] : i \in DOMAIN Published}
      \cup {mainRes[i] : i \in DOMAIN mainRes}
      \cup UNION {{c.res[i] : i \in DOMAIN c.res} : c \in Running}

\* C10: the scan returns no file beneath a directory with an ignored
\* basename, and no rebuilt or published entry comes from such a file.
C10_ScanPrunesIgnored ==
    /\ LET found == findMarkdownFiles(Root, dirs, files, ignoredDirs)
       IN \A i \in DOMAIN found : ~UnderIgnored(found[i], ignoredDirs)
    /\ \A e \in Rebuilt :
          \A f \in DOMAIN TitleFile :
             e.Title = f => ~UnderIgnored(TitleFile[f], ignoredDirs)

\* A rebuild has been published while an ignored subtree holds a
\* markdown file with an entry, and the set holds the other file's entry.
C10_Witness ==
    /\ mainpc = "idle"
    /\ FileH \in DOMAIN files
    /\ reminders = Header(parseReminderEntries(LinesOf(FileA)))

---------------------------------------------------------------------------
(* Properties of the scheduler.                                            *)

Count(title) == IF title \in DOMAIN delivered THEN delivered[title] ELSE 0
SchedIdle == schedpc = "wait" /\ ~tickPending

\* C1: every reminder that is in the published set from the start of the
\* process and stays in it is delivered to the notifier exactly once
\* over the run: never twice, and, once its due minute has passed and the
\* scheduler has nothing left to do, not zero times.
C1_DeliveredExactlyOnce ==
    mainpc # "load" =>
       \A i \in 1..reminders.len :
          LET r == reminders.arr[i]
          IN /\ Count(r.Title) <= 1
             /\ (SchedIdle /\ Format(now) > Format(r.Time)) => Count(r.Title) >= 1

\* C11: on a tick, the entries notified are exactly the entries of the
\* snapshot read at that tick whose due minute is the minute of the tick
\* (the minute in which remindLoop received it).
C11_TickDeliversItsMinute ==
    (schedpc = "pass" /\ nextTick # 0) =>
       \A i \in 1..Len(hist.pass) :
          hist.pass[i].sent <=> Format(EntryAt(snap, i).Time) = Format(hist.tickAt)

\* C12: the catch-up pass is the first pass and ends before any tick is
\* sent; it ranges over the initially loaded set and notifies exactly the
\* entries whose due time is at or before the instant of their check.
C12_CatchUpDeliversPastOnly ==
    /\ (schedpc = "pass" /\ nextTick = 0) =>
          /\ hist.passes = 0
          /\ snap = Header(hist.lastDone)
          /\ \A i \in 1..Len(hist.pass) :
                hist.pass[i].sent <=> snap.arr[i].Time <= hist.pass[i].at
    /\ (tickPending \/ hist.passes >= 1) => nextTick # 0
    /\ nextTick # 0 => hist.passes >= 1

\* The catch-up pass has ended over two entries: the first, due before,
\* was notified, the second, due later, was not.
C12_Witness ==
    /\ schedpc = "pass" /\ nextTick = 0 /\ idx > snap.len
    /\ Len(hist.pass) = 2
    /\ snap.arr[1].Time < hist.pass[1].at /\ hist.pass[1].sent
    /\ snap.arr[2].Time > now /\ ~hist.pass[2].sent

---------------------------------------------------------------------------
(* Properties of the timers of several paths.                              *)

\* C13: every path that had a Create/Write event has its own timer; an
\* armed timer fires a full quiet window after the last event of its own
\* path, whatever events other paths receive meanwhile, and every burst
\* that has ended started exactly one rebuild callback, so N isolated
\* events on N paths start N rebuilds.
C13_TimersArePerPath ==
    \A p \in DOMAIN hist.burst :
       /\ p \in DOMAIN eventTimers
       /\ LET b == hist.burst[p]
          IN /\ eventTimers[p] > 0 =>
                   b.fired = 0 /\ eventTimers[p] + b.since = QuietWindow
             /\ eventTimers[p] = 0 => b.fired = 1 /\ b.gap = QuietWindow

\* One event on each of two paths: each burst has ended in its one
\* callback, and the two callbacks run at the same time.
C13_Witness ==
    /\ \A p \in {FileA, FileB} :
          /\ p \in DOMAIN hist.burst
          /\ ~hist.burst[p].multi /\ hist.burst[p].fired = 1
          /\ eventTimers[p] = 0
    /\ \E c, d \in Running : c.path = FileA /\ d.path = FileB

---------------------------------------------------------------------------
(* Properties of the notifier.                                             *)

\* C14: a notifier invocation that fails is the one invocation of its
\* entry in the pass, and the step changes nothing else: the published
\* set, the timer table, the running callbacks and the process are as
\* they were, and the scheduler is at the next entry of the same pass, with
\* the same snapshot and the same ticker.
C14_FailedNotifyChangesNothingElse ==
    [][(delivered' # delivered /\ hist'.lastNotify = "failed") =>
          /\ delivered' = notify(delivered, EntryAt(snap, idx).Title)
          /\ idx' = idx + 1
          /\ schedpc' = schedpc /\ snap' = snap
          /\ nextTick' = nextTick /\ tickPending' = tickPending
          /\ reminders' = reminders
          /\ eventTimers' = eventTimers /\ callbacks' = callbacks
          /\ alive' = alive /\ events' = events /\ mainpc' = mainpc]_vars

\* After a failed invocation the scheduler has delivered again, on a
\* tick, while a debounce timer is armed.
C14_Witness ==
    /\ hist.lastNotify = "recovered"
    /\ schedpc = "pass" /\ nextTick # 0
    /\ \E p \in DOMAIN eventTimers : eventTimers[p] > 0

---------------------------------------------------------------------------
(* Properties of the events the loop drops, and of the timer table.        *)

\* The event loop takes the event at the head of the queue.
Takes == alive /\ mainpc = "idle" /\ events # <<>> /\ events' = Tail(events)

\* What handling a dropped event leaves alone: no timer is created, armed
\* or reset, no rebuild starts, the published set stays.
NoTimerNoRebuild ==
    /\ eventTimers' = eventTimers
    /\ callbacks' = callbacks
    /\ reminders' = reminders
    /\ mainpc' = "idle" /\ mainRes' = mainRes
    /\ alive'

\* C15: handling a Create or Write event of a file whose name does not
\* end in .md creates, arms and resets no timer, starts no rebuild and
\* leaves the published set as it is.
C15_OtherSuffixIgnored ==
    [][(/\ Takes
        /\ Has(Head(events), "Create") \/ Has(Head(events), "Write")
        /\ Head(events).Name \notin dirs
        /\ ~HasSuffixMd(Base(Head(events).Name)))
          => NoTimerNoRebuild]_vars

\* An event of the text file has been dropped while the markdown file's
\* timer is armed, and the text file has no timer.
C15_Witness ==
    /\ "suffix" \in hist.skipped
    /\ Armed(eventTimers, FileA)
    /\ FileT \notin DOMAIN eventTimers

\* C16: whenever the loop is at the select, the keys of the timer table
\* are the markdown files that have had a Create/Write event, and for
\* each of them one timer has been created, never a second one.
C16_OneTimerPerPath ==
    /\ mainpc = "idle" => DOMAIN eventTimers = hist.cw
    /\ DOMAIN hist.made = DOMAIN eventTimers
    /\ \A p \in DOMAIN hist.made : hist.made[p] = 1

\* A timer has fired and has been reset by a later event of its path.
C16_Witness ==
    /\ Armed(eventTimers, FileA)
    /\ \E c \in Running : c.path = FileA
    /\ hist.made[FileA] = 1

\* C18: handling an event of a .md path that carries Rename only, or a
\* Create event of a path that is a directory, arms no timer, starts no
\* rebuild and leaves the published set as it is.
C18_RenameAndDirCreateIgnored ==
    [][(/\ Takes
        /\ \/ Head(events).Op = {"Rename"} /\ HasSuffixMd(Base(Head(events).Name))
           \/ Has(Head(events), "Create") /\ Head(events).Name \in dirs)
          => NoTimerNoRebuild]_vars

\* The Rename of the markdown file and the Create of the directory d.md,
\* which holds a markdown file, have been dropped: the published set is
\* still the one of the startup load.
C18_Witness ==
    /\ {"rename", "dir"} \subseteq hist.skipped
    /\ DirMd \in watched /\ FileD \in DOMAIN files
    /\ FileA \notin DOMAIN files
    /\ reminders = Header(parseReminderEntries(LinesOf(FileA)))

\* C17: at most one rebuild callback of a path's timer is running at any
\* time.
C17_OneCallbackPerPath ==
    \A c \in Running :
       /\ CopiesIn(c, callbacks) = 1
       /\ \A d \in Running : d.path = c.path => d = c

---------------------------------------------------------------------------
(* Properties of a rebuild over files that cannot be read.                 *)

EntriesOf(res) == {res[i] : i \in DOMAIN res}

\* C19: a rebuild whose scan finds files it cannot read returns the
\* entries of all the files it can read and none of the others.
C19_UnreadableFileSkipped ==
    LET s == hist.lastScan
    IN EntriesOf(s.res) =
          UNION {EntriesOf(parseReminderEntries(LinesOf(p))) : p \in s.on \ s.unread}

\* A rebuild has been published that lacks the entry of a file which is
\* on disk, cannot be read, and had its entry in the set published
\* before; the other file's entry is there.
C19_Witness ==
    /\ alive /\ NoStoreInProgress
    /\ FileA \in DOMAIN files /\ FileA \in hist.lastScan.unread
    /\ hist.lastScan.before =
          parseReminderEntries(LinesOf(FileA)) \o parseReminderEntries(LinesOf(FileB))
    /\ hist.lastScan.res = parseReminderEntries(LinesOf(FileB))
    /\ reminders = Header(hist.lastScan.res)

=============================================================================
